---- MODULE Spec2Model ----
(***************************************************************************)
(* A model of the probing engine of socialname: the two entry points       *)
(* socialname() (socialname/socialname.py, with the logics/ package) and   *)
(* sherlock() (socialname/sherlock.py), their worker pools, the detection  *)
(* strategies and the failure handling of get_response.                    *)
(*                                                                         *)
(* Python values: None is the empty tuple and a present optional value x   *)
(* is <<x>>; text (a response body, an expected error message, a username) *)
(* is a tuple of characters; a dict is a function; a catalog's keys are    *)
(* 1..n in insertion order.                                                *)
(***************************************************************************)
EXTENDS Integers, Sequences, FiniteSets, TLC

\* ------------------------------------------------------------------ bounds
\* Sites of a catalog in an engine run.
NumSites == 2
\* Largest workers cap a caller passes.
MaxWorkers == 2
\* Most logical CPUs psutil.cpu_count reports.
NoCpus == 2
\* Longest response body, longest expected error message, longest list of them.
MaxBody == 3
MaxSub == 2
MaxErrors == 2

\* ------------------------------------------------------------ Python values
None == <<>>
Some(x) == <<x>>

CLAIMED == "Claimed"
AVAILABLE == "Available"
UNKNOWN == "Unknown"
ILLEGAL == "Illegal"

\* All tuples over S of a length in lo..hi.
SeqsOf(S, lo, hi) == UNION {[1..n -> S] : n \in lo..hi}

\* Python's `sub in text` for str: plain, case-sensitive containment.
Contains(text, sub) ==
    \E i \in 0..(Len(text) - Len(sub)) : SubSeq(text, i + 1, i + Len(sub)) = sub

\* ------------------------------------------------------- legality pre-check
\* re.search(regex_check, username) is not None, for the patterns of the
\* catalogs used here: "" matches everywhere, "^[^.]*$" matches a username
\* without a dot, "[.]" finds a dot.
re_search(pattern, uname) ==
    CASE pattern = "" -> TRUE
      [] pattern = "^[^.]*$" -> \A i \in 1..Len(uname) : uname[i] # "."
      [] pattern = "[.]" -> \E i \in 1..Len(uname) : uname[i] = "."

\* BaseLogic.is_illegal
is_illegal_neverMutant(site_info, uname) == FALSE
is_illegal(site_info, uname) ==
    /\ site_info.regex_check # None
    /\ ~re_search(site_info.regex_check[1], uname)

\* sherlock(): `if regex_check and re.search(regex_check, username) is None`
\* ("" is falsy).
sherlock_is_illegal(net_info, uname) ==
    /\ net_info.regex_check # None
    /\ net_info.regex_check[1] # ""
    /\ ~re_search(net_info.regex_check[1], uname)

\* ------------------------------------------------------ detection strategies
\* logics/status_code.py Logic.get_status, get_result.status_from_status_code,
\* sherlock.py line 325.
status_from_status_code_2xxMutant(status_code) ==
    IF 200 <= status_code /\ status_code < 300 THEN CLAIMED ELSE AVAILABLE
status_from_status_code(status_code) ==
    IF ~(status_code >= 300) \/ status_code < 200 THEN CLAIMED ELSE AVAILABLE

\* logics/response_url.py Logic.get_status, get_result.status_from_response_url.
status_from_response_url_QuirkMutant(status_code) ==
    IF status_code < 300 THEN CLAIMED ELSE AVAILABLE
status_from_response_url(status_code) ==
    IF 200 <= status_code /\ status_code < 300 THEN CLAIMED ELSE AVAILABLE

\* The `for error in error_message` loop with its break: the value of
\* error_flag when the loop ends.
RECURSIVE error_flag_of_list(_, _)
error_flag_of_list(errors, text) ==
    IF errors = <<>> THEN TRUE
    ELSE IF Contains(text, Head(errors)) THEN FALSE
    ELSE error_flag_of_list(Tail(errors), text)

\* logics/message.py Logic.get_status, get_result.status_from_message.
\* error_message is [type |-> "str", value |-> text], [type |-> "list",
\* value |-> tuple of texts] or [type |-> "none", value |-> None].
status_from_message_FirstOnlyMutant(text, error_message) ==
    LET error_flag ==
          CASE error_message.type = "str" -> ~Contains(text, error_message.value)
            [] error_message.type = "list" ->
                 error_message.value = <<>> \/ ~Contains(text, Head(error_message.value))
            [] OTHER -> TRUE
    IN  IF error_flag THEN CLAIMED ELSE AVAILABLE
status_from_message(text, error_message) ==
    LET error_flag ==
          CASE error_message.type = "str" -> ~Contains(text, error_message.value)
            [] error_message.type = "list" -> error_flag_of_list(error_message.value, text)
            [] OTHER -> TRUE
    IN  IF error_flag THEN CLAIMED ELSE AVAILABLE

KnownLogics == {"message", "status_code", "response_url"}

\* The Logic class importlib resolves for a descriptor / the errorType chain of
\* get_status: the status a response is classified as.
get_status(logic, response, error_message) ==
    CASE logic = "message" -> status_from_message(response.text, error_message)
      [] logic = "status_code" -> status_from_status_code(response.status_code)
      [] logic = "response_url" -> status_from_response_url(response.status_code)

\* Logic.allow_redirects of the three logics; sherlock.py lines 188-196.
allow_redirects_NeverMutant(logic) == FALSE
allow_redirects(logic) == logic # "response_url"

\* ------------------------------------------------------ request construction
\* str.format(username) of a template: a tuple of characters in which the
\* token "{}" is the replacement field.
RECURSIVE format(_, _)
format(template, uname) ==
    IF template = <<>> THEN <<>>
    ELSE (IF Head(template) = "{}" THEN uname ELSE <<Head(template)>>)
         \o format(Tail(template), uname)

\* The User-Agent every request carries by default.
DefaultHeaders ==
    [h \in {"User-Agent"} |->
        "Mozilla/5.0 (Macintosh; Intel Mac OS X 10.12; rv:55.0) Gecko/20100101 Firefox/55.0"]
\* {"User-Agent": ..., **headers} / headers.update(net_info["headers"]): the
\* keys of both, the descriptor's value where both have the key.
merge_headers_DefaultWinsMutant(headers) ==
    [h \in DOMAIN DefaultHeaders \cup DOMAIN headers |->
        IF h \in DOMAIN DefaultHeaders THEN DefaultHeaders[h] ELSE headers[h]]
merge_headers(headers) ==
    [h \in DOMAIN DefaultHeaders \cup DOMAIN headers |->
        IF h \in DOMAIN headers THEN headers[h] ELSE DefaultHeaders[h]]

\* Logic.request_method of the three logics: HEAD for a status_code site that
\* declares requestHeadOnly, GET otherwise.
request_method(site_info) ==
    IF site_info.logic = "status_code" /\ site_info.request_head_only THEN "HEAD" ELSE "GET"
\* sherlock.py lines 173-186: the session method net_info["request_method"]
\* names, GET by default.
sherlock_request_method(net_info) ==
    IF net_info.request_method = "POST" THEN "POST"
    ELSE IF net_info.request_method = "HEAD" THEN "HEAD"
    ELSE "GET"

\* get_result lines 128-133 and 149: url_probe or url_user.
probe_url(site_info, uname) ==
    LET url_user == format(site_info.url_user, uname)
        url_probe == IF site_info.url_probe # None
                     THEN Some(format(site_info.url_probe[1], uname)) ELSE None
    IN  IF url_probe # None /\ url_probe[1] # <<>> THEN url_probe[1] ELSE url_user
\* sherlock.py lines 164-171: the formatted urlProbe unless it is None.
sherlock_probe_url(net_info, uname) ==
    IF net_info.url_probe = None THEN format(net_info.url_user, uname)
    ELSE format(net_info.url_probe[1], uname)

\* ------------------------------------------------------- transport failures
\* The classes of requests.exceptions named by the except clauses of
\* get_response, with the classes each is an instance of; UnicodeError stands
\* for an exception that is no RequestException.
Mro(exc) ==
    CASE exc = "HTTPError" -> {"HTTPError", "RequestException"}
      [] exc = "ProxyError" -> {"ProxyError", "ConnectionError", "RequestException"}
      [] exc = "SSLError" -> {"SSLError", "ConnectionError", "RequestException"}
      [] exc = "ConnectionError" -> {"ConnectionError", "RequestException"}
      [] exc = "ConnectTimeout" ->
           {"ConnectTimeout", "ConnectionError", "Timeout", "RequestException"}
      [] exc = "ReadTimeout" -> {"ReadTimeout", "Timeout", "RequestException"}
      [] exc = "Timeout" -> {"Timeout", "RequestException"}
      [] exc = "TooManyRedirects" -> {"TooManyRedirects", "RequestException"}
      [] exc = "RequestException" -> {"RequestException"}
      [] exc = "UnicodeError" -> {"UnicodeError", "ValueError"}

RequestExceptions ==
    {"HTTPError", "ProxyError", "SSLError", "ConnectionError", "ConnectTimeout",
     "ReadTimeout", "Timeout", "TooManyRedirects", "RequestException"}
Exceptions == RequestExceptions \cup {"UnicodeError"}

\* The except clauses of get_response in their order: the class caught and the
\* error_context it sets.
ExceptClauses_ConnectionOnlyMutant ==
    << <<"HTTPError", "HTTP Error">>,
       <<"ProxyError", "Proxy Error">>,
       <<"ConnectionError", "Error Connecting">> >>
ExceptClauses ==
    << <<"HTTPError", "HTTP Error">>,
       <<"ProxyError", "Proxy Error">>,
       <<"ConnectionError", "Error Connecting">>,
       <<"Timeout", "Timeout Error">>,
       <<"RequestException", "Unknown Error">> >>

\* The clauses an exception is an instance of; Python runs the first.
Catching(exc) == {i \in 1..Len(ExceptClauses) : ExceptClauses[i][1] \in Mro(exc)}
FirstCatching(exc) == CHOOSE i \in Catching(exc) : \A j \in Catching(exc) : i <= j

\* What a send ends in: a response object or a raised exception.
Response(status_code, text) ==
    [kind |-> "response", status_code |-> status_code, text |-> text,
     elapsed |-> 1, exc |-> "-"]
Raise(exc) ==
    [kind |-> "raise", status_code |-> 0, text |-> <<>>, elapsed |-> 0, exc |-> exc]
\* A send that never returns (a server that accepts the connection and stays
\* silent, with no timeout set).
Hang ==
    [kind |-> "hang", status_code |-> 0, text |-> <<>>, elapsed |-> 0, exc |-> "-"]

\* get_response (logics/_base_simple_request.py, sherlock.py, get_result.py)
\* applied to what the send ends in: the response, the error context, and the
\* exception that no clause catches.
get_response_ZeroOkMutant(out) ==
    IF out.kind = "response"
    THEN [response |-> Some(out), error_context |-> None,
          expection_text |-> None, propagates |-> None]
    ELSE IF Catching(out.exc) # {}
    THEN [response |-> None,
          error_context |-> Some(ExceptClauses[FirstCatching(out.exc)][2]),
          expection_text |-> Some(out.exc),
          propagates |-> None]
    ELSE [response |-> None,
          error_context |-> Some("General Unknown Error"),
          expection_text |-> None,
          propagates |-> Some(out.exc)]
get_response(out) ==
    IF out.kind = "response"
    THEN [response |-> Some(out),
          error_context |-> IF out.status_code # 0 THEN None
                            ELSE Some("General Unknown Error"),
          expection_text |-> None,
          propagates |-> None]
    ELSE IF Catching(out.exc) # {}
    THEN [response |-> None,
          error_context |-> Some(ExceptClauses[FirstCatching(out.exc)][2]),
          expection_text |-> Some(out.exc),
          propagates |-> None]
    ELSE [response |-> None,
          error_context |-> Some("General Unknown Error"),
          expection_text |-> None,
          propagates |-> Some(out.exc)]

\* get_context: the SimpleRequestContext of a response (http_status "?" is None).
get_context_ElapsedZeroMutant(response, error_context, expection_text) ==
    [http_status |-> IF response # None THEN Some(response[1].status_code) ELSE None,
     elapsed_time |-> IF response # None THEN Some(response[1].elapsed) ELSE Some(0),
     response_text |-> IF response # None THEN response[1].text ELSE <<>>,
     error_context |-> error_context,
     expection_text |-> expection_text]
get_context(response, error_context, expection_text) ==
    [http_status |-> IF response # None THEN Some(response[1].status_code) ELSE None,
     elapsed_time |-> IF response # None THEN Some(response[1].elapsed) ELSE None,
     response_text |-> IF response # None THEN response[1].text ELSE <<>>,
     error_context |-> error_context,
     expection_text |-> expection_text]

\* ------------------------------------------------------------------ inputs
Alphabet == {"a", "A"}
Bodies == SeqsOf(Alphabet, 0, MaxBody)
Subs == SeqsOf(Alphabet, 0, MaxSub)
NoMessage == [type |-> "none", value |-> None]
ErrorMessages ==
    {[type |-> "str", value |-> s] : s \in Subs}
    \cup {[type |-> "list", value |-> l] : l \in SeqsOf(Subs, 0, MaxErrors)}
StatusCodes == {0, 100, 199, 200, 201, 299, 300, 301, 404, 500}
Logics == KnownLogics \cup {"bogus"}
RegexChecks == {None, Some(""), Some("^[^.]*$"), Some("[.]")}
Usernames == {<<"a">>, <<"a", ".">>}

\* A site descriptor as the loader leaves it (sites.py SiteInformation; the
\* site_name is the catalog key, set when the catalog is built).
SiteInformation(logic, regex_check, error_message) ==
    [site_name |-> 0, logic |-> logic, regex_check |-> regex_check,
     error_message |-> error_message, request_future |-> None,
     url_user |-> <<"u", "{}">>, url_probe |-> None, headers |-> <<>>,
     request_head_only |-> FALSE, request_method |-> "GET", request_payload |-> None]

\* A site: its descriptor and what a send to it ends in.  One probe is checked
\* over ProbeSites (and, for the legality check, over RegexSites with every
\* username); an engine run draws every site of its catalog from EngineSites.
ProbeSites ==
    {<<SiteInformation("message", None, m), Response(200, b)>> :
        m \in ErrorMessages, b \in Bodies}
    \cup {<<SiteInformation(l, None, NoMessage), Response(c, <<"a">>)>> :
        l \in Logics, c \in StatusCodes}
    \cup {<<SiteInformation(l, None, NoMessage), Raise(e)>> :
        l \in Logics, e \in Exceptions}
RegexSites ==
    {<<SiteInformation(l, r, NoMessage), Response(200, <<"a">>)>> :
        l \in KnownLogics, r \in RegexChecks}

\* The descriptor fields a request is built from, and the sites that vary
\* them: the HTTP method, the head-only flag, the body template, the headers,
\* the probe URL template (absent, present, present and empty).
Methods == {"GET", "POST", "HEAD"}
Payloads == {None, Some(<<"d", "{}">>)}
HeaderSets ==
    {<<>>, "User-Agent" :> "site", "X-Site" :> "x",
     ("User-Agent" :> "site") @@ ("X-Site" :> "x")}
UrlProbes == {None, Some(<<"p", "{}">>), Some(<<>>)}
RequestSites ==
    {<<[SiteInformation(l, None, [type |-> "str", value |-> <<"A">>]) EXCEPT
            !.request_method = m, !.request_head_only = ho, !.request_payload = d,
            !.headers = h, !.url_probe = p],
       Response(200, <<"a">>)>> :
        l \in KnownLogics, m \in Methods, ho \in BOOLEAN, d \in Payloads,
        h \in HeaderSets, p \in UrlProbes}
Proxies == {None, Some("socks5://proxy")}

EngineSites ==
    { <<SiteInformation("status_code", None, NoMessage), Response(200, <<"a">>)>>,
      <<SiteInformation("status_code", None, NoMessage), Response(404, <<"a">>)>>,
      <<SiteInformation("message", None, [type |-> "list", value |-> <<<<"A">>, <<"a">>>>]),
        Response(200, <<"a", "a">>)>>,
      <<SiteInformation("response_url", Some("^[^.]*$"), NoMessage),
        Response(301, <<>>)>>,
      <<SiteInformation("status_code", Some("[.]"), NoMessage), Response(199, <<>>)>>,
      <<SiteInformation("response_url", None, NoMessage), Response(0, <<>>)>>,
      <<SiteInformation("status_code", None, NoMessage), Raise("ReadTimeout")>>,
      <<SiteInformation("message", None, [type |-> "str", value |-> <<"A">>]),
        Raise("UnicodeError")>>,
      <<SiteInformation("bogus", None, NoMessage), Response(200, <<"a">>)>>,
      <<SiteInformation("bogus", None, NoMessage), Raise("ConnectionError")>> }

\* The sites of the runs in which a send may hang: a site that answers, a
\* site the username is illegal for, a site whose send raises what no clause
\* catches, and a site whose send never returns.
HangSites ==
    { <<SiteInformation("status_code", None, NoMessage), Response(200, <<"a">>)>>,
      <<SiteInformation("status_code", Some("[.]"), NoMessage), Response(199, <<>>)>>,
      <<SiteInformation("message", None, [type |-> "str", value |-> <<"A">>]),
        Raise("UnicodeError")>>,
      <<SiteInformation("status_code", None, NoMessage), Hang>> }

\* ------------------------------------------------------------------- state
VARIABLES
    entry,        \* the entry point running: "socialname" or "sherlock"
    username,     \* the username probed
    no_cpus,      \* the logical CPUs psutil.cpu_count reports
    unique_tor,   \* the caller asks for a new Tor identity after every request
    tor,          \* the caller asks for requests over Tor
    proxy,        \* the caller's proxy, if any
    handles,      \* the TorRequest objects created so far
    site_data,    \* the catalog: key -> descriptor (sites_info / site_data)
    workers,      \* the caller's workers cap
    transport,    \* key -> what a send to that site ends in
    pc,           \* where the entry point's own thread is
    idx,          \* the key its current loop is at
    max_workers,  \* the pool's size
    task,         \* key -> state of that site's pool task (future)
    value,        \* key -> what the finished task holds
    results,      \* the mapping being built (results / results_total)
    notify_log,   \* the calls the notify sink has received, in order
    sent,         \* key -> the requests the transport has received for it
    classified,   \* key -> how often a detection strategy ran for it
    resets,       \* key -> how often reset_identity was called for it
    raised        \* the exception that reached the caller, if any

vars == <<entry, username, no_cpus, unique_tor, tor, proxy, resets, handles, site_data, workers, transport, pc, idx, max_workers,
          task, value, results, notify_log, sent, classified, raised>>

Keys == DOMAIN site_data
SiteCount == Cardinality(Keys)

\* ---------------------------------------------------------------- pool size
\* socialname.get_max_workers; sherlock.py line 116.
get_max_workers_IgnoreCpusMutant(site_count, workers_cap) ==
    IF site_count <= workers_cap THEN site_count ELSE workers_cap
get_max_workers(site_count, workers_cap) ==
    LET Min(a, b) == IF a <= b THEN a ELSE b
    IN  Min(site_count, Min(no_cpus, workers_cap))

\* The runs a specification starts from: the username, the workers cap and the
\* sites of the catalog in insertion order.
Run(uname, cap, cpus, mode, prx, sites) ==
    [username |-> uname, workers |-> cap, no_cpus |-> cpus, tor |-> mode[1],
     unique_tor |-> mode[2], proxy |-> prx, sites |-> sites]
\* The caller's <<tor, unique_tor>>.  An engine run is plain or rotates the
\* identity; tor without rotation differs from a plain run only in the
\* TorRequest objects created, and is run on the catalogs of one site.
TorModes == BOOLEAN \X BOOLEAN
EngineModes == {<<FALSE, FALSE>>, <<FALSE, TRUE>>}
\* The workers caps and CPU counts of the engine runs: one of the two is the
\* largest, so that each of them is the smaller one in some run.
PoolLimits ==
    {wc \in (1..MaxWorkers) \X (1..NoCpus) : wc[1] = MaxWorkers \/ wc[2] = NoCpus}
EngineRuns ==
    {Run(u, wc[1], wc[2], mode, None, c) :
        u \in Usernames, wc \in PoolLimits, mode \in EngineModes,
        c \in [1..NumSites -> EngineSites]}
ProbeRuns ==
    {Run(<<"a">>, 1, 1, <<FALSE, FALSE>>, None, <<s>>) : s \in ProbeSites}
    \cup {Run(u, 1, 1, mode, None, <<s>>) :
             u \in Usernames, mode \in TorModes, s \in RegexSites}
    \cup {Run(<<"a">>, 1, 1, <<FALSE, FALSE>>, prx, <<s>>) :
             prx \in Proxies, s \in RequestSites}

InitWith(runs) ==
    /\ entry \in {"socialname", "sherlock"}
    /\ \E run \in runs :
         /\ username = run.username
         /\ workers = run.workers
         /\ no_cpus = run.no_cpus
         /\ unique_tor = run.unique_tor
         /\ tor = run.tor
         /\ proxy = run.proxy
         /\ site_data = [k \in DOMAIN run.sites |->
                            [run.sites[k][1] EXCEPT !.site_name = k]]
         /\ transport = [k \in DOMAIN run.sites |-> run.sites[k][2]]
         /\ task = [k \in DOMAIN run.sites |-> "none"]
         /\ value = [k \in DOMAIN run.sites |-> None]
         /\ sent = [k \in DOMAIN run.sites |-> <<>>]
         /\ classified = [k \in DOMAIN run.sites |-> 0]
         /\ resets = [k \in DOMAIN run.sites |-> 0]
    /\ pc = "init"
    /\ idx = 0
    /\ max_workers = 0
    /\ handles = 0
    /\ results = <<>>
    /\ notify_log = <<>>
    /\ raised = None

\* Runs without a timeout in which at most one site's send hangs.
HangRuns ==
    {Run(<<"a">>, wc[1], wc[2], mode, None, c) :
        wc \in PoolLimits, mode \in EngineModes,
        c \in {c \in [1..NumSites -> HangSites] :
                  Cardinality({k \in 1..NumSites : c[k][2] = Hang}) <= 1}}

\* Runs over the catalogs of every length up to NumSites, the catalog without
\* sites included.
CatalogSites ==
    { <<SiteInformation("status_code", None, NoMessage), Response(200, <<"a">>)>>,
      <<SiteInformation("status_code", Some("[.]"), NoMessage), Response(199, <<>>)>>,
      <<SiteInformation("message", None, [type |-> "str", value |-> <<"A">>]),
        Raise("UnicodeError")>>,
      <<SiteInformation("bogus", None, NoMessage), Response(200, <<"a">>)>> }
CatalogRuns ==
    {Run(<<"a">>, wc[1], wc[2], mode, None, c) :
        wc \in PoolLimits, mode \in TorModes,
        c \in UNION {[1..n -> CatalogSites] : n \in 0..NumSites}}

Init == InitWith(EngineRuns)
CatalogInit == InitWith(CatalogRuns)
HangInit == InitWith(HangRuns)
ProbeInit == InitWith(ProbeRuns)

\* ------------------------------------------------------------ notify sink
NotifyStart(uname) == [op |-> "start", arg |-> uname]
NotifyUpdate(result) == [op |-> "update", arg |-> result]
NotifyFinish == [op |-> "finish", arg |-> None]

\* ------------------------------------------------------------ worker pool
\* The tasks holding a worker thread of the pool.
Running == {k \in Keys : task[k] \in {"sending", "rotating", "built"}}
\* ThreadPoolExecutor hands queued work to a free thread in submission order.
MayStart(k) ==
    /\ task[k] = "queued"
    /\ \A j \in Keys : j < k => task[j] # "queued"
    /\ Cardinality(Running) < max_workers

\* The request the transport receives for a site in socialname(): the
\* arguments of request_method(...) in get_response, the method, and the
\* session of the site's Logic object it is sent through.
Request(site_info) ==
    [site |-> site_info.site_name,
     method |-> request_method(site_info),
     url |-> probe_url(site_info, username),
     headers |-> merge_headers(site_info.headers),
     proxies |-> proxy,
     allow_redirects |-> allow_redirects(site_info.logic),
     data |-> None,
     session |-> site_info.site_name]
\* The request of a site in sherlock(), lines 136-145 and 162-222, sent
\* through the one session of the run (0).
SherlockRequest(net_info) ==
    [site |-> net_info.site_name,
     method |-> sherlock_request_method(net_info),
     url |-> sherlock_probe_url(net_info, username),
     headers |-> merge_headers(net_info.headers),
     proxies |-> proxy,
     allow_redirects |-> allow_redirects(net_info.logic),
     data |-> IF proxy # None THEN None
              ELSE IF net_info.request_method = "POST" /\ net_info.request_payload # None
              THEN Some(format(net_info.request_payload[1], username))
              ELSE None,
     session |-> 0]

\* --------------------------------------------------------------- socialname()
\* BaseSimpleRequestLogic.get_result, lines 135-146: the Illegal result.
IllegalResult(site_info, uname) ==
    [username |-> uname, site_name |-> site_info.site_name,
     url_user |-> format(site_info.url_user, uname), status |-> ILLEGAL,
     elapsed_time |-> None, context |-> <<>>]

\* BaseSimpleRequestLogic.get_result, lines 162-175: whether the strategy runs
\* and the result built from what get_response returned.
Classifies(r) == ~(r.response = None \/ r.error_context # None)
ProbeResult_BusyPoolMutant(site_info, uname, r) ==
    LET context == get_context(r.response, r.error_context, r.expection_text)
    IN  [username |-> uname, site_name |-> site_info.site_name,
         url_user |-> format(site_info.url_user, uname),
         status |-> IF Classifies(r) /\ Cardinality(Running) < 2
                    THEN get_status(site_info.logic, r.response[1], site_info.error_message)
                    ELSE UNKNOWN,
         elapsed_time |-> context.elapsed_time,
         context |-> context]
ProbeResult(site_info, uname, r) ==
    LET context == get_context(r.response, r.error_context, r.expection_text)
    IN  [username |-> uname, site_name |-> site_info.site_name,
         url_user |-> format(site_info.url_user, uname),
         status |-> IF Classifies(r)
                    THEN get_status(site_info.logic, r.response[1], site_info.error_message)
                    ELSE UNKNOWN,
         elapsed_time |-> context.elapsed_time,
         context |-> context]

\* socialname.py line 37
SnStart ==
    /\ entry = "socialname" /\ pc = "init"
    /\ notify_log' = Append(notify_log, NotifyStart(username))
    /\ pc' = "build"
    /\ UNCHANGED <<entry, username, no_cpus, unique_tor, tor, proxy, resets, handles, site_data, workers, transport, idx, max_workers,
                   task, value, results, sent, classified, raised>>

\* socialname.py lines 39-47: one Logic object per site; importlib raises for a
\* logic that names no module.
\* The sites whose Logic object is constructed: all of them, or those before
\* the first one whose module cannot be imported.
LogicsBuilt ==
    {k \in Keys : \A j \in 1..k : site_data[j].logic \in KnownLogics}
SnBuild_DispatchFirstMutant ==
    /\ entry = "socialname" /\ pc = "build"
    /\ IF \E k \in Keys : site_data[k].logic \notin KnownLogics
       THEN /\ pc' = "raised" /\ raised' = Some("ModuleNotFoundError")
            /\ sent' = [k \in Keys |-> IF k \in LogicsBuilt
                                       THEN <<Request(site_data[k])>> ELSE <<>>]
       ELSE pc' = "pool" /\ UNCHANGED <<raised, sent>>
    /\ handles' = IF tor \/ unique_tor THEN Cardinality(LogicsBuilt) ELSE 0
    /\ UNCHANGED <<entry, username, no_cpus, unique_tor, tor, proxy, resets, site_data, workers,
                   transport, idx, max_workers, task, value, results, notify_log,
                   classified>>
SnBuild ==
    /\ entry = "socialname" /\ pc = "build"
    /\ IF \E k \in Keys : site_data[k].logic \notin KnownLogics
       THEN pc' = "raised" /\ raised' = Some("ModuleNotFoundError")
       ELSE pc' = "pool" /\ UNCHANGED raised
    /\ handles' = IF tor \/ unique_tor THEN Cardinality(LogicsBuilt) ELSE 0
    /\ UNCHANGED <<entry, username, no_cpus, unique_tor, tor, proxy, resets, site_data, workers, transport, idx, max_workers,
                   task, value, results, notify_log, sent, classified>>

\* socialname.py lines 49-52: the pool is created and executor.map submits
\* every task.  ThreadPoolExecutor raises ValueError for max_workers <= 0,
\* which get_max_workers gives for a catalog without sites.
SnSubmit ==
    /\ entry = "socialname" /\ pc = "pool"
    /\ results' = <<>>
    /\ IF get_max_workers(SiteCount, workers) <= 0
       THEN /\ pc' = "raised" /\ raised' = Some("ValueError")
            /\ UNCHANGED <<max_workers, task, idx>>
       ELSE /\ max_workers' = get_max_workers(SiteCount, workers)
            /\ task' = [k \in Keys |-> "queued"]
            /\ idx' = 1
            /\ pc' = "collect"
            /\ UNCHANGED raised
    /\ UNCHANGED <<entry, username, no_cpus, unique_tor, tor, proxy, resets, handles, site_data, workers, transport, value,
                   notify_log, sent, classified>>

\* run_logic -> get_result, lines 126-155: a worker takes the task; an illegal
\* username ends it at once, otherwise the request is sent.
TaskStart(k) ==
    /\ entry = "socialname" /\ MayStart(k)
    /\ IF is_illegal(site_data[k], username)
       THEN /\ task' = [task EXCEPT ![k] = "done"]
            /\ value' = [value EXCEPT ![k] = Some(IllegalResult(site_data[k], username))]
            /\ UNCHANGED sent
       ELSE /\ task' = [task EXCEPT ![k] = "sending"]
            /\ sent' = [sent EXCEPT ![k] = Append(@, Request(site_data[k]))]
            /\ UNCHANGED value
    /\ UNCHANGED <<entry, username, no_cpus, unique_tor, tor, proxy, resets, handles, site_data, workers, transport, pc, idx,
                   max_workers, results, notify_log, classified, raised>>

\* get_result, lines 148-175: the send ends (a send that hangs never does)
\* and get_response maps it; an
\* exception no clause catches ends the task.  With unique_tor the worker then
\* calls reset_identity; otherwise the response is classified and the result
\* is built.
TaskRespond_RetryMutant(k) ==
    /\ entry = "socialname" /\ task[k] = "sending"
    /\ transport[k] # Hang
    /\ LET r == get_response(transport[k])
       IN  IF r.propagates # None
           THEN /\ task' = [task EXCEPT ![k] = "raised"]
                /\ value' = [value EXCEPT ![k] = r.propagates]
                /\ UNCHANGED <<classified, sent>>
           ELSE IF r.error_context # None /\ Len(sent[k]) < 2
           THEN /\ sent' = [sent EXCEPT ![k] = Append(@, Request(site_data[k]))]
                /\ UNCHANGED <<task, value, classified>>
           ELSE IF unique_tor
           THEN /\ task' = [task EXCEPT ![k] = "rotating"]
                /\ UNCHANGED <<value, classified, sent>>
           ELSE /\ task' = [task EXCEPT ![k] = "built"]
                /\ value' = [value EXCEPT ![k] = Some(ProbeResult(site_data[k], username, r))]
                /\ classified' = [classified EXCEPT ![k] = IF Classifies(r) THEN @ + 1 ELSE @]
                /\ UNCHANGED sent
    /\ resets' = [resets EXCEPT ![k] = IF task'[k] = "rotating" THEN @ + 1 ELSE @]
    /\ UNCHANGED <<entry, username, no_cpus, unique_tor, tor, proxy, handles, site_data, workers, transport, pc, idx,
                   max_workers, results, notify_log, raised>>
TaskRespond(k) ==
    /\ entry = "socialname" /\ task[k] = "sending"
    /\ transport[k] # Hang
    /\ LET r == get_response(transport[k])
       IN  IF r.propagates # None
           THEN /\ task' = [task EXCEPT ![k] = "raised"]
                /\ value' = [value EXCEPT ![k] = r.propagates]
                /\ UNCHANGED classified
           ELSE IF unique_tor
           THEN /\ task' = [task EXCEPT ![k] = "rotating"]
                /\ UNCHANGED <<value, classified>>
           ELSE /\ task' = [task EXCEPT ![k] = "built"]
                /\ value' = [value EXCEPT ![k] = Some(ProbeResult(site_data[k], username, r))]
                /\ classified' = [classified EXCEPT ![k] = IF Classifies(r) THEN @ + 1 ELSE @]
    /\ resets' = [resets EXCEPT ![k] = IF task'[k] = "rotating" THEN @ + 1 ELSE @]
    /\ UNCHANGED <<entry, username, no_cpus, unique_tor, tor, proxy, handles, site_data, workers, transport, pc, idx,
                   max_workers, results, notify_log, sent, raised>>

\* get_result, lines 157-175: the worker's reset_identity call returns; the
\* response is classified and the result is built.
TaskRotate(k) ==
    /\ entry = "socialname" /\ task[k] = "rotating"
    /\ LET r == get_response(transport[k])
       IN  /\ task' = [task EXCEPT ![k] = "built"]
           /\ value' = [value EXCEPT ![k] = Some(ProbeResult(site_data[k], username, r))]
           /\ classified' = [classified EXCEPT ![k] = IF Classifies(r) THEN @ + 1 ELSE @]
    /\ UNCHANGED <<entry, username, no_cpus, unique_tor, tor, proxy, resets, handles, site_data, workers, transport, pc, idx,
                   max_workers, results, notify_log, sent, raised>>

TaskUpdate_WritesMappingMutant(k) ==
    /\ entry = "socialname" /\ task[k] = "built"
    /\ notify_log' = Append(notify_log, NotifyUpdate(value[k][1]))
    /\ results' = (k :> value[k][1]) @@ results
    /\ task' = [task EXCEPT ![k] = "done"]
    /\ UNCHANGED <<entry, username, no_cpus, unique_tor, tor, proxy, resets, handles, site_data, workers, transport, pc, idx,
                   max_workers, value, sent, classified, raised>>
\* get_result, lines 176-178: the worker, which has built the result and is at
\* its query_notify.update(result) call, runs update (self.result = result) and
\* the task returns the result.  No lock is taken around the call.
TaskUpdate(k) ==
    /\ entry = "socialname" /\ task[k] = "built"
    /\ notify_log' = Append(notify_log, NotifyUpdate(value[k][1]))
    /\ task' = [task EXCEPT ![k] = "done"]
    /\ UNCHANGED <<entry, username, no_cpus, unique_tor, tor, proxy, resets, handles, site_data, workers, transport, pc, idx,
                   max_workers, value, results, sent, classified, raised>>

SnCollect_SkipIllegalMutant ==
    /\ entry = "socialname" /\ pc = "collect"
    /\ idx \in Keys /\ task[idx] = "done"
    /\ results' = IF value[idx][1].status = ILLEGAL THEN results
                  ELSE (value[idx][1].site_name :> value[idx][1]) @@ results
    /\ idx' = idx + 1
    /\ pc' = IF idx = SiteCount THEN "finish" ELSE "collect"
    /\ UNCHANGED <<entry, username, no_cpus, unique_tor, tor, proxy, resets, handles, site_data, workers, transport, max_workers,
                   task, value, notify_log, sent, classified, raised>>
SnCollect_BeforeUpdateMutant ==
    /\ entry = "socialname" /\ pc = "collect"
    /\ idx \in Keys /\ task[idx] \in {"built", "done"}
    /\ results' = (value[idx][1].site_name :> value[idx][1]) @@ results
    /\ idx' = idx + 1
    /\ pc' = IF idx = SiteCount THEN "finish" ELSE "collect"
    /\ UNCHANGED <<entry, username, no_cpus, unique_tor, tor, proxy, resets, handles, site_data, workers, transport, max_workers,
                   task, value, notify_log, sent, classified, raised>>
\* socialname.py lines 52-53: the next result of executor.map, in submission
\* order, is stored under its site_name; after the last one the pool is left.
SnCollect_AsCompletedMutant ==
    /\ entry = "socialname" /\ pc = "collect"
    /\ \E k \in Keys \ DOMAIN results :
         /\ task[k] = "done"
         /\ results' = (value[k][1].site_name :> value[k][1]) @@ results
    /\ idx' = idx + 1
    /\ pc' = IF idx = SiteCount THEN "finish" ELSE "collect"
    /\ UNCHANGED <<entry, username, no_cpus, unique_tor, tor, proxy, resets, handles, site_data, workers,
                   transport, max_workers, task, value, notify_log, sent, classified,
                   raised>>
SnCollect_ModifiedCopyMutant ==
    /\ entry = "socialname" /\ pc = "collect"
    /\ idx \in Keys /\ task[idx] = "done"
    /\ results' = (value[idx][1].site_name :> [value[idx][1] EXCEPT !.elapsed_time = None])
                   @@ results
    /\ idx' = idx + 1
    /\ pc' = IF idx = SiteCount THEN "finish" ELSE "collect"
    /\ UNCHANGED <<entry, username, no_cpus, unique_tor, tor, proxy, resets, handles, site_data, workers,
                   transport, max_workers, task, value, notify_log, sent, classified,
                   raised>>
SnCollect ==
    /\ entry = "socialname" /\ pc = "collect"
    /\ idx \in Keys /\ task[idx] = "done"
    /\ results' = (value[idx][1].site_name :> value[idx][1]) @@ results
    /\ idx' = idx + 1
    /\ pc' = IF idx = SiteCount THEN "finish" ELSE "collect"
    /\ UNCHANGED <<entry, username, no_cpus, unique_tor, tor, proxy, resets, handles, site_data, workers, transport, max_workers,
                   task, value, notify_log, sent, classified, raised>>

\* The next result is an exception: executor.map cancels what has not started
\* and the exception leaves the loop.
SnCollectRaise ==
    /\ entry = "socialname" /\ pc = "collect"
    /\ idx \in Keys /\ task[idx] = "raised"
    /\ task' = [k \in Keys |-> IF task[k] = "queued" THEN "cancelled" ELSE task[k]]
    /\ raised' = Some(value[idx][1])
    /\ pc' = "shutdown"
    /\ UNCHANGED <<entry, username, no_cpus, unique_tor, tor, proxy, resets, handles, site_data, workers, transport, idx, max_workers,
                   value, results, notify_log, sent, classified>>

\* Leaving the `with` block waits for the running tasks; then the caller gets
\* the exception.
SnShutdown ==
    /\ entry = "socialname" /\ pc = "shutdown"
    /\ Running = {}
    /\ pc' = "raised"
    /\ UNCHANGED <<entry, username, no_cpus, unique_tor, tor, proxy, resets, handles, site_data, workers, transport, idx, max_workers,
                   task, value, results, notify_log, sent, classified, raised>>

SnFinish_EarlyMutant ==
    /\ entry = "socialname" /\ pc \in {"collect", "finish"}
    /\ notify_log' = Append(notify_log, NotifyFinish)
    /\ pc' = "done"
    /\ UNCHANGED <<entry, username, no_cpus, unique_tor, tor, proxy, resets, handles, site_data, workers, transport, idx, max_workers,
                   task, value, results, sent, classified, raised>>
\* socialname.py lines 55-56
SnFinish ==
    /\ entry = "socialname" /\ pc = "finish"
    /\ notify_log' = Append(notify_log, NotifyFinish)
    /\ pc' = "done"
    /\ UNCHANGED <<entry, username, no_cpus, unique_tor, tor, proxy, resets, handles, site_data, workers, transport, idx, max_workers,
                   task, value, results, sent, classified, raised>>

\* ------------------------------------------------------------------ sherlock()
\* result.py QueryResult
QueryResult(uname, site_name, site_url_user, status, query_time, context) ==
    [username |-> uname, site_name |-> site_name, site_url_user |-> site_url_user,
     status |-> status, query_time |-> query_time, context |-> context]

\* sherlock.py lines 254-367 for one site whose future is done: the exception
\* that leaves sherlock(), or the QueryResult, and whether a strategy ran.
SherlockOutcome(net_info, uname, out) ==
    LET r == get_response(out)
        response_time == IF r.response # None THEN Some(r.response[1].elapsed) ELSE None
        Result(status, context) ==
            QueryResult(uname, net_info.site_name, format(net_info.url_user, uname),
                        status, response_time, context)
    IN  IF r.propagates # None
        THEN [raises |-> r.propagates, result |-> None, classifies |-> FALSE]
        ELSE IF ~Classifies(r)
        THEN [raises |-> None, result |-> Some(Result(UNKNOWN, r.error_context)),
              classifies |-> FALSE]
        ELSE IF net_info.logic = "message" /\ net_info.error_message.type = "none"
        THEN [raises |-> Some("TypeError"), result |-> None, classifies |-> TRUE]
        ELSE IF net_info.logic \in KnownLogics
        THEN [raises |-> None,
              result |-> Some(Result(get_status(net_info.logic, r.response[1],
                                                net_info.error_message), None)),
              classifies |-> TRUE]
        ELSE [raises |-> Some("ValueError"), result |-> None, classifies |-> FALSE]

\* sherlock.py lines 98-123; the FuturesSession creates its
\* ThreadPoolExecutor(max_workers) when it is constructed.
ShStart ==
    /\ entry = "sherlock" /\ pc = "init"
    /\ notify_log' = Append(notify_log, NotifyStart(username))
    /\ handles' = IF tor \/ unique_tor THEN 1 ELSE 0
    /\ IF get_max_workers(SiteCount, workers) <= 0
       THEN /\ pc' = "raised" /\ raised' = Some("ValueError")
            /\ UNCHANGED <<max_workers, results, idx>>
       ELSE /\ max_workers' = get_max_workers(SiteCount, workers)
            /\ results' = <<>>
            /\ idx' = 1
            /\ pc' = "loop1"
            /\ UNCHANGED raised
    /\ UNCHANGED <<entry, username, no_cpus, unique_tor, tor, proxy, resets, site_data, workers, transport, task, value,
                   sent, classified>>

\* sherlock.py lines 126-232, one site: an illegal username is recorded and
\* notified at once; otherwise the request is handed to the session's pool and
\* its future is stored in the site's net_info.
ShDispatch ==
    /\ entry = "sherlock" /\ pc = "loop1" /\ idx \in Keys
    /\ IF sherlock_is_illegal(site_data[idx], username)
       THEN LET result == QueryResult(username, idx,
                                      format(site_data[idx].url_user, username),
                                      ILLEGAL, None, None)
            IN  /\ notify_log' = Append(notify_log, NotifyUpdate(result))
                /\ results' = (idx :> [status |-> Some(result)]) @@ results
                /\ UNCHANGED <<task, site_data>>
       ELSE /\ task' = [task EXCEPT ![idx] = "queued"]
            /\ site_data' = [site_data EXCEPT ![idx].request_future = Some(idx)]
            /\ results' = (idx :> [status |-> None]) @@ results
            /\ UNCHANGED notify_log
    /\ IF unique_tor /\ ~sherlock_is_illegal(site_data[idx], username)
       THEN /\ pc' = "reset"
            /\ resets' = [resets EXCEPT ![idx] = @ + 1]
            /\ UNCHANGED idx
       ELSE /\ idx' = IF idx = SiteCount THEN 1 ELSE idx + 1
            /\ pc' = IF idx = SiteCount THEN "loop2" ELSE "loop1"
            /\ UNCHANGED resets
    /\ UNCHANGED <<entry, username, no_cpus, unique_tor, tor, proxy, handles, workers, transport, max_workers, value, sent,
                   classified, raised>>

\* sherlock.py lines 227-232: with unique_tor the main thread's
\* reset_identity call returns and the loop goes on.
ShReset ==
    /\ entry = "sherlock" /\ pc = "reset"
    /\ idx' = IF idx = SiteCount THEN 1 ELSE idx + 1
    /\ pc' = IF idx = SiteCount THEN "loop2" ELSE "loop1"
    /\ UNCHANGED <<entry, username, no_cpus, unique_tor, tor, proxy, resets, handles, site_data, workers, transport, max_workers,
                   task, value, results, notify_log, sent, classified, raised>>

\* A thread of the session's pool sends the request.
ShSend(k) ==
    /\ entry = "sherlock" /\ MayStart(k)
    /\ task' = [task EXCEPT ![k] = "sending"]
    /\ sent' = [sent EXCEPT ![k] = Append(@, SherlockRequest(site_data[k]))]
    /\ UNCHANGED <<entry, username, no_cpus, unique_tor, tor, proxy, resets, handles, site_data, workers, transport, pc, idx,
                   max_workers, value, results, notify_log, classified, raised>>

\* The send ends, unless it hangs; the future holds the response or the
\* exception.
ShReceive(k) ==
    /\ entry = "sherlock" /\ task[k] = "sending"
    /\ transport[k] # Hang
    /\ task' = [task EXCEPT ![k] = "done"]
    /\ value' = [value EXCEPT ![k] = Some(transport[k])]
    /\ UNCHANGED <<entry, username, no_cpus, unique_tor, tor, proxy, resets, handles, site_data, workers, transport, pc, idx,
                   max_workers, results, notify_log, sent, classified, raised>>

\* sherlock.py lines 236-367, one site: a site that already has a status is
\* skipped; otherwise the future is waited for and its outcome classified.
ShResolve ==
    /\ entry = "sherlock" /\ pc = "loop2" /\ idx \in Keys
    /\ IF results[idx].status # None
       THEN /\ idx' = idx + 1
            /\ pc' = IF idx = SiteCount THEN "finish" ELSE "loop2"
            /\ UNCHANGED <<results, notify_log, classified, raised>>
       ELSE /\ task[idx] = "done"
            /\ LET o == SherlockOutcome(site_data[idx], username, value[idx][1])
               IN  /\ classified' = [classified EXCEPT ![idx] =
                                        IF o.classifies THEN @ + 1 ELSE @]
                   /\ IF o.raises # None
                      THEN /\ raised' = o.raises
                           /\ pc' = "raised"
                           /\ UNCHANGED <<idx, results, notify_log>>
                      ELSE /\ pc' = "update"
                           /\ UNCHANGED <<idx, results, notify_log, raised>>
    /\ UNCHANGED <<entry, username, no_cpus, unique_tor, tor, proxy, resets, handles, site_data, workers, transport, max_workers,
                   task, value, sent>>

\* sherlock.py lines 369-370: the sink is told the site's result.
ShUpdate ==
    /\ entry = "sherlock" /\ pc = "update"
    /\ LET o == SherlockOutcome(site_data[idx], username, value[idx][1])
       IN  notify_log' = Append(notify_log, NotifyUpdate(o.result[1]))
    /\ pc' = "store"
    /\ UNCHANGED <<entry, username, no_cpus, unique_tor, tor, proxy, resets, handles, site_data, workers, transport, idx,
                   max_workers, task, value, results, sent, classified, raised>>

\* sherlock.py lines 372-380: the result is stored in the site's entry of
\* results_total.
ShStore ==
    /\ entry = "sherlock" /\ pc = "store"
    /\ LET o == SherlockOutcome(site_data[idx], username, value[idx][1])
       IN  results' = (idx :> [status |-> o.result]) @@ results
    /\ idx' = idx + 1
    /\ pc' = IF idx = SiteCount THEN "finish" ELSE "loop2"
    /\ UNCHANGED <<entry, username, no_cpus, unique_tor, tor, proxy, resets, handles, site_data, workers, transport, max_workers,
                   task, value, notify_log, sent, classified, raised>>

\* sherlock.py lines 382-385
ShFinish ==
    /\ entry = "sherlock" /\ pc = "finish"
    /\ notify_log' = Append(notify_log, NotifyFinish)
    /\ pc' = "done"
    /\ UNCHANGED <<entry, username, no_cpus, unique_tor, tor, proxy, resets, handles, site_data, workers, transport, idx, max_workers,
                   task, value, results, sent, classified, raised>>

\* ------------------------------------------------------------ specifications
Next ==
    \/ SnStart \/ SnBuild \/ SnSubmit
    \/ \E k \in Keys : TaskStart(k)
    \/ \E k \in Keys : TaskRespond(k)
    \/ \E k \in Keys : TaskRotate(k)
    \/ \E k \in Keys : TaskUpdate(k)
    \/ SnCollect \/ SnCollectRaise \/ SnShutdown \/ SnFinish
    \/ ShStart \/ ShDispatch \/ ShReset
    \/ \E k \in Keys : ShSend(k)
    \/ \E k \in Keys : ShReceive(k)
    \/ ShResolve \/ ShUpdate \/ ShStore \/ ShFinish

\* Engine runs over catalogs of NumSites sites.
Spec == Init /\ [][Next]_vars
\* One probe: a catalog of one site, over the wide inputs.
ProbeSpec == ProbeInit /\ [][Next]_vars

\* The steps of the thread that called the entry point, and of the pool's
\* threads for one site.
MainThread ==
    \/ SnStart \/ SnBuild \/ SnSubmit
    \/ SnCollect \/ SnCollectRaise \/ SnShutdown \/ SnFinish
    \/ ShStart \/ ShDispatch \/ ShReset
    \/ ShResolve \/ ShUpdate \/ ShStore \/ ShFinish
WorkerThread(k) ==
    \/ TaskStart(k) \/ TaskRespond(k) \/ TaskRotate(k) \/ TaskUpdate(k)
    \/ ShSend(k) \/ ShReceive(k)
\* Engine runs in which every thread that can take a step eventually takes
\* one: the interpreter schedules every runnable thread, the pool gives queued
\* work to a free worker, and every send ends.
FairSpec ==
    /\ Spec
    /\ WF_vars(MainThread)
    /\ \A k \in 1..NumSites : WF_vars(WorkerThread(k))
\* Engine runs over catalogs of zero to NumSites sites.
CatalogSpec == CatalogInit /\ [][Next]_vars
\* The same threads over the runs in which a send may hang: a hung send is
\* the one step that is never enabled.
HangSpec ==
    /\ HangInit /\ [][Next]_vars
    /\ WF_vars(MainThread)
    /\ \A k \in 1..NumSites : WF_vars(WorkerThread(k))

\* ------------------------------------------------------- reading the state
\* The engine has returned its mapping to the caller.
Returned == pc = "done"
\* The site has a final result in the mapping (sherlock() first stores an entry
\* without a status for a site it has dispatched).
HasResult(k) ==
    /\ k \in DOMAIN results
    /\ entry = "sherlock" => results[k].status # None
\* The site's result object: the mapping's value in socialname(), the "status"
\* entry of the site's dict in sherlock().
FinalResult(k) == IF entry = "socialname" THEN results[k] ELSE results[k].status[1]
FinalStatus(k) == FinalResult(k).status
\* The failure category the result carries (None when it carries none).
ErrorContext(k) ==
    IF entry = "sherlock" THEN FinalResult(k).context
    ELSE IF FinalResult(k).context = <<>> THEN None
    ELSE FinalResult(k).context.error_context
\* Calls of one kind the sink has received, by position.
Calls(op) == {i \in DOMAIN notify_log : notify_log[i].op = op}
UpdatesFor(k) == {i \in Calls("update") : notify_log[i].arg.site_name = k}
\* The username fails the legality expression the descriptor declares.
FailsRegex(k) ==
    /\ site_data[k].regex_check # None
    /\ ~re_search(site_data[k].regex_check[1], username)
\* The send to the site ends in an exception of the transport library.
SendFails(k) == transport[k].kind = "raise" /\ transport[k].exc \in RequestExceptions

\* ------------------------------------------------------------------ claims
\* C1: when the engine returns, the key set of the mapping is exactly the key
\* set of the catalog, whatever the outcomes and the completion order.
C1_KeySetEqualsCatalog == Returned => DOMAIN results = DOMAIN site_data
\* C1 witness: socialname() has returned a mapping that holds an Illegal and
\* an Unknown site.
C1_Witness ==
    /\ Returned /\ entry = "socialname"
    /\ \E j, k \in Keys : FinalStatus(j) = ILLEGAL /\ FinalStatus(k) = UNKNOWN

\* C2: when the engine returns, notify.update has been called exactly once for
\* every site of the catalog, Illegal ones included, with that site's final
\* result.
C2_UpdateOncePerSite ==
    Returned =>
        \A k \in Keys :
            /\ Cardinality(UpdatesFor(k)) = 1
            /\ \A i \in UpdatesFor(k) : notify_log[i].arg = FinalResult(k)

\* C3: start is called once and before every update, finish once and after
\* every update: no update ever follows it.
C3_StartUpdatesFinish ==
    /\ Cardinality(Calls("start")) <= 1
    /\ Cardinality(Calls("finish")) <= 1
    /\ \A i \in Calls("update") : \E j \in Calls("start") : j < i
    /\ \A i \in Calls("finish") : \A j \in Calls("update") : j < i
    /\ Returned => Cardinality(Calls("start")) = 1 /\ Cardinality(Calls("finish")) = 1
\* C3 witness: a returned run of socialname() on a pool of two workers in which
\* the update of the second site came before the update of the first.
C3_Witness ==
    /\ Returned /\ entry = "socialname" /\ max_workers = 2
    /\ \E i, j \in Calls("update") :
         i < j /\ notify_log[i].arg.site_name = 2 /\ notify_log[j].arg.site_name = 1

\* C4: a site whose legality expression the username fails gets no request at
\* any time, and the result it gets is Illegal.
C4_IllegalNeverSent ==
    \A k \in Keys :
        FailsRegex(k) =>
            /\ sent[k] = <<>>
            /\ HasResult(k) => FinalStatus(k) = ILLEGAL
            /\ Returned => HasResult(k)
\* C4 witness: a returned run with an Illegal site beside a site that was sent
\* a request.
C4_Witness ==
    /\ Returned
    /\ \E j, k \in Keys : FailsRegex(j) /\ FinalStatus(j) = ILLEGAL /\ sent[k] # <<>>

\* The run has a cause to abort other than a transport failure: a site whose
\* logic names no strategy, or a send raising what is no RequestException.
OtherAbortCause ==
    \E k \in Keys :
        \/ site_data[k].logic \notin KnownLogics
        \/ transport[k].kind = "raise" /\ transport[k].exc \notin RequestExceptions
\* The site's probe fails: it is sent (not Illegal) and the send ends in a
\* transport exception or in a response without a status code.
ProbeFails(k) ==
    /\ ~FailsRegex(k)
    /\ SendFails(k) \/ (transport[k].kind = "response" /\ transport[k].status_code = 0)
\* The status of the site when no probe fails: a function of the site alone.
StatusWithoutFailure(k) ==
    IF FailsRegex(k) THEN ILLEGAL
    ELSE CASE site_data[k].logic = "status_code" ->
                IF transport[k].status_code < 300 THEN CLAIMED ELSE AVAILABLE
           [] site_data[k].logic = "response_url" ->
                IF transport[k].status_code \in 200..299 THEN CLAIMED ELSE AVAILABLE
           [] site_data[k].logic = "message" ->
                status_from_message(transport[k].text, site_data[k].error_message)

\* C5: transport failures never abort the run: it returns one entry per site,
\* finish is called once, exactly the failed sites are Unknown and every other
\* site has the status it has without any failure.
C5_FailuresDoNotAbort ==
    ~OtherAbortCause =>
        /\ raised = None /\ pc \notin {"raised", "shutdown"}
        /\ Returned =>
             /\ DOMAIN results = Keys
             /\ Cardinality(Calls("finish")) = 1
             /\ \A k \in Keys : (FinalStatus(k) = UNKNOWN) <=> ProbeFails(k)
             /\ \A k \in Keys : ~ProbeFails(k) => FinalStatus(k) = StatusWithoutFailure(k)
\* C5 witness: a returned run in which one send timed out and the other site
\* was classified.
C5_Witness ==
    /\ Returned /\ ~OtherAbortCause
    /\ \E j, k \in Keys :
         /\ SendFails(j) /\ FinalStatus(j) = UNKNOWN
         /\ FinalStatus(k) \in {CLAIMED, AVAILABLE}

\* The category of the failure taxonomy a transport exception belongs to: an
\* HTTP-level error, a proxy error, a timeout (read or connect), another
\* connection error, any other request error.
FailureCategory(exc) ==
    IF "HTTPError" \in Mro(exc) THEN "HTTP Error"
    ELSE IF "ProxyError" \in Mro(exc) THEN "Proxy Error"
    ELSE IF "Timeout" \in Mro(exc) THEN "Timeout Error"
    ELSE IF "ConnectionError" \in Mro(exc) THEN "Error Connecting"
    ELSE "Unknown Error"

\* C6: a send that ends in a failure of one of the five kinds gives the site
\* status Unknown with the category string of that kind as context, and no
\* detection strategy runs for the site.
C6_FailureIsUnknownWithCategory ==
    \A k \in Keys :
        (SendFails(k) /\ HasResult(k)) =>
            /\ FinalStatus(k) = UNKNOWN
            /\ ErrorContext(k) = Some(FailureCategory(transport[k].exc))
            /\ classified[k] = 0

\* C7: a send that expires with a timeout failure of the transport, a read
\* timeout or a connect timeout, resolves to Unknown with the context
\* "Timeout Error".
C7_TimeoutIsTimeoutError ==
    \A k \in Keys :
        (SendFails(k) /\ "Timeout" \in Mro(transport[k].exc) /\ HasResult(k)) =>
            /\ FinalStatus(k) = UNKNOWN
            /\ ErrorContext(k) = Some("Timeout Error")

\* The site's response was classified by the strategy of the given logic.
ClassifiedBy(k, logic) ==
    /\ site_data[k].logic = logic
    /\ HasResult(k)
    /\ classified[k] > 0

OccursIn(sub, text) ==
    \E before, after \in 0..Len(text) :
        /\ before + Len(sub) + after = Len(text)
        /\ \A i \in 1..Len(sub) : text[before + i] = sub[i]
\* The expected error messages of a descriptor, as a set, and every reordering
\* of them.
Expected(error_message) ==
    IF error_message.type = "str" THEN {error_message.value}
    ELSE {error_message.value[i] : i \in DOMAIN error_message.value}
Reorderings(error_message) ==
    IF error_message.type = "str" THEN {error_message}
    ELSE LET n == Len(error_message.value)
         IN  {[type |-> "list", value |-> [i \in 1..n |-> error_message.value[p[i]]]] :
                p \in {q \in [1..n -> 1..n] : \A i, j \in 1..n : q[i] = q[j] => i = j}}

\* C9: the Message strategy gives Available exactly when one of the expected
\* messages occurs in the body (case-sensitive containment) and Claimed
\* otherwise, whatever the order of the messages in the list.
C9_MessageAvailableIffAnyOccurs ==
    \A k \in Keys :
        ClassifiedBy(k, "message") =>
            LET m == site_data[k].error_message
                text == transport[k].text
            IN  /\ FinalStatus(k) =
                     IF \E sub \in Expected(m) : OccursIn(sub, text)
                     THEN AVAILABLE ELSE CLAIMED
                /\ \A r \in Reorderings(m) : status_from_message(text, r) = FinalStatus(k)
\* C9 witness: a list whose first message is not in the body and whose second
\* is, classified as Available.
C9_Witness ==
    \E k \in Keys :
        /\ ClassifiedBy(k, "message")
        /\ site_data[k].error_message.type = "list"
        /\ Len(site_data[k].error_message.value) = 2
        /\ ~OccursIn(site_data[k].error_message.value[1], transport[k].text)
        /\ OccursIn(site_data[k].error_message.value[2], transport[k].text)
        /\ FinalStatus(k) = AVAILABLE

\* C10: the ResponseUrl strategy gives Claimed exactly for a status in
\* [200, 300) and Available for every other status, and every request of a
\* ResponseUrl site is sent with redirect-following disabled.
C10_ResponseUrlNoRedirect2xx ==
    \A k \in Keys :
        site_data[k].logic = "response_url" =>
            /\ \A i \in DOMAIN sent[k] : ~sent[k][i].allow_redirects
            /\ ClassifiedBy(k, "response_url") =>
                 FinalStatus(k) = IF transport[k].status_code \in 200..299
                                  THEN CLAIMED ELSE AVAILABLE
\* C10 witness: a raw 301 of a ResponseUrl site classified as Available.
C10_Witness ==
    \E k \in Keys :
        /\ ClassifiedBy(k, "response_url")
        /\ transport[k].status_code = 301
        /\ sent[k] # <<>>
        /\ FinalStatus(k) = AVAILABLE

\* A result without its elapsed-time fields: the status and the context.
StatusAndContext(result) ==
    [status |-> result.status,
     context |-> IF result.context = <<>> \/ entry = "sherlock" THEN result.context
                 ELSE [f \in DOMAIN result.context \ {"elapsed_time"} |-> result.context[f]]]
\* The result of a site as the username, the descriptor and the outcome of the
\* site's send determine it, without the pool.
InputResult(k) ==
    IF entry = "socialname"
    THEN IF is_illegal(site_data[k], username)
         THEN IllegalResult(site_data[k], username)
         ELSE ProbeResult(site_data[k], username, get_response(transport[k]))
    ELSE IF sherlock_is_illegal(site_data[k], username)
         THEN QueryResult(username, k, format(site_data[k].url_user, username),
                          ILLEGAL, None, None)
         ELSE SherlockOutcome(site_data[k], username, transport[k]).result[1]

\* C11: the mapping a run returns is, up to the elapsed-time fields, a function
\* of the username, the catalog and the outcomes of the sends alone: its key
\* set is the catalog's and each site has the status and context these inputs
\* determine, so runs that differ only in the workers cap return equal mappings.
C11_MappingIndependentOfWorkers ==
    Returned =>
        /\ DOMAIN results = Keys
        /\ \A k \in Keys :
             StatusAndContext(FinalResult(k)) = StatusAndContext(InputResult(k))
\* C11 witness: a returned run of socialname() with a cap of two workers in
\* which both sends were in progress together and the sites got different
\* statuses; the same inputs are run with a cap of one.
C11_Witness ==
    /\ Returned /\ entry = "socialname" /\ workers = 2 /\ max_workers = 2
    /\ \E j, k \in Keys :
         /\ j < k /\ FinalStatus(j) = CLAIMED /\ FinalStatus(k) = UNKNOWN
         /\ \E a, b \in Calls("update") :
              a < b /\ notify_log[a].arg.site_name = k /\ notify_log[b].arg.site_name = j

\* The sites whose transport send is in progress.
SendsInProgress == {k \in Keys : task[k] = "sending"}
\* The least of the number of sites, the caller's workers cap and the number
\* of logical CPUs.
PoolBound ==
    LET limits == {SiteCount, workers, no_cpus}
    IN  CHOOSE m \in limits : \A x \in limits : m <= x
\* The pool of the run exists: max_workers has been assigned (a pool has at
\* least one worker).
PoolCreated == max_workers # 0

UnknownKind == {k \in Keys : site_data[k].logic \notin KnownLogics}

\* C13: a run on a catalog with a descriptor of an unrecognised detection kind
\* never returns a mapping and never records a result for that descriptor.
C13_UnknownKindIsFatal ==
    UnknownKind # {} =>
        /\ ~Returned
        /\ \A k \in UnknownKind : ~HasResult(k)

\* The send to the site ends in an exception of any class.
SendRaises(k) == transport[k].kind = "raise"

\* C14: on a catalog whose descriptors all have a recognised detection kind no
\* exception reaches the caller: every exception a send raises, a request
\* exception or not, becomes the site's Unknown result and the run returns.
C14_OnlyConfigurationErrorsAbort ==
    UnknownKind = {} =>
        /\ raised = None /\ pc \notin {"raised", "shutdown"}
        /\ \A k \in Keys :
             (SendRaises(k) /\ ~FailsRegex(k) /\ HasResult(k)) => FinalStatus(k) = UNKNOWN

\* C15: no probe is retried: a site is sent at most one request at any time,
\* and when the run returns every site that is not Illegal has been sent
\* exactly one, whatever that send ended in.
C15_OneSendPerSite ==
    \A k \in Keys :
        /\ Len(sent[k]) <= 1
        /\ (Returned /\ ~FailsRegex(k)) => Len(sent[k]) = 1
\* C15 witness: a returned run in which the send of one site failed and the
\* send of another got a response, each sent once.
C15_Witness ==
    /\ Returned
    /\ \E j, k \in Keys :
         /\ SendFails(j) /\ Len(sent[j]) = 1 /\ FinalStatus(j) = UNKNOWN
         /\ transport[k].kind = "response" /\ Len(sent[k]) = 1

\* C16: no step of a run of either entry point changes the catalog: every
\* descriptor keeps the fields and values it had before the run.
C16_CatalogNeverMutated == [][site_data' = site_data]_vars

\* finish has been called.
Finished == Calls("finish") # {}

\* C17: when every send ends and the threads are scheduled fairly, a run on a
\* catalog of recognised detection kinds eventually calls finish and returns
\* its mapping, and finish is never called while a site has no recorded result.
C17_EventuallyFinishes ==
    /\ (UnknownKind = {}) ~> (Returned /\ Finished)
    /\ [](Finished => \A k \in Keys : HasResult(k))

\* The four events of a site: its request has been dispatched, its response
\* has been classified, update has been called with its result, its result is
\* in the mapping.
Dispatched(k) == sent[k] # <<>>
Classified(k) == classified[k] > 0
Notified(k) == UpdatesFor(k) # {}
Written(k) == HasResult(k)
\* The site's send ends in a response that a strategy classifies.
HasClassification(k) == Classifies(get_response(transport[k]))
\* The number of events of the site that a step brings about.
EventsOfStep(k) ==
    (IF sent' # sent /\ ~Dispatched(k) /\ Dispatched(k)' THEN 1 ELSE 0)
    + (IF classified' # classified /\ ~Classified(k) /\ Classified(k)' THEN 1 ELSE 0)
    + (IF notify_log' # notify_log /\ ~Notified(k) /\ Notified(k)' THEN 1 ELSE 0)
    + (IF results' # results /\ ~Written(k) /\ Written(k)' THEN 1 ELSE 0)

\* C18: for a site that is not Illegal the dispatch of the request comes
\* strictly before the classification of the response, that strictly before
\* the update call with the result, that strictly before the write of the
\* result into the mapping: a later event is never there without the earlier
\* ones, and no step brings about two events of one site.
C18_PerSiteEventOrder ==
    /\ [](\A k \in Keys :
            ~FailsRegex(k) =>
                /\ Classified(k) => Dispatched(k)
                /\ Notified(k) => (Dispatched(k) /\ (HasClassification(k) => Classified(k)))
                /\ Written(k) => Notified(k))
    /\ [][\A k \in Keys : ~FailsRegex(k) => EventsOfStep(k) <= 1]_vars
\* C18 witness: a returned run in which two sites were classified, notified
\* and written, and the update of the second site came before the update of
\* the first.
C18_Witness ==
    /\ Returned
    /\ \E j, k \in Keys :
         /\ j < k /\ Classified(j) /\ Classified(k) /\ Written(j) /\ Written(k)
         /\ \E a \in UpdatesFor(k), b \in UpdatesFor(j) : a < b

\* The keys whose entry of the mapping a step inserts or replaces.
KeysWritten ==
    {k \in DOMAIN results' : k \notin DOMAIN results \/ results'[k] # results[k]}

\* C19: every step that writes into the mapping is a step of the coordinating
\* thread, never of a pool worker, and writes the entry of one key: the inserts
\* have one owner and happen one at a time.
C19_MappingHasOneWriter ==
    [][KeysWritten # {} => (MainThread /\ Cardinality(KeysWritten) = 1)]_vars
\* C19 witness: the coordinating thread of socialname() has written a result
\* into the mapping while a worker is still running the task of another site.
C19_Witness ==
    /\ entry = "socialname" /\ max_workers = 2
    /\ \E j, k \in Keys : HasResult(j) /\ k \in Running

\* The threads inside a reset_identity call: the workers of socialname() that
\* are rotating (by site) and the main thread of sherlock() (0).
Rotating ==
    {k \in Keys : task[k] = "rotating"} \cup (IF pc = "reset" THEN {0} ELSE {})

\* C20: with unique_tor at most one reset_identity call is in progress at any
\* time, in every interleaving of the worker tasks.
C20_RotationMutuallyExclusive == unique_tor => Cardinality(Rotating) <= 1

\* The sites whose reset_identity call is in progress: the site of a rotating
\* worker of socialname(), the site the first loop of sherlock() is at.
RotatingFor ==
    {k \in Keys : task[k] = "rotating"} \cup (IF pc = "reset" THEN {idx} ELSE {})
\* The site's request has been handed over for sending.
Handed(k) == site_data[k].request_future # None \/ sent[k] # <<>>
\* The code that rotates has waited for the site's send and holds what it ended
\* in: session.get returned in the worker of socialname(); the second loop of
\* sherlock() got the future's result.
ResponseReceived(k) ==
    IF entry = "socialname"
    THEN task[k] \in {"rotating", "built", "done", "raised"} /\ sent[k] # <<>>
    ELSE \/ HasResult(k)
         \/ pc \in {"update", "store", "raised"} /\ idx = k

\* C21: with unique_tor, while the rotation for a site is in progress the
\* site's request has been dispatched and the engine has not yet waited for or
\* received that request's response.
C21_RotationBeforeResponse ==
    unique_tor => \A k \in RotatingFor : Handed(k) /\ ~ResponseReceived(k)

\* C22: in a run with tor or unique_tor whose pool exists, exactly one
\* TorRequest has been created and every request sent went through the one
\* session, however many sites the catalog has.
C22_OneSharedHandle ==
    ((tor \/ unique_tor) /\ PoolCreated) =>
        /\ handles = 1
        /\ \A j, k \in Keys :
             \A a \in DOMAIN sent[j], b \in DOMAIN sent[k] :
                 sent[j][a].session = sent[k][b].session

\* C23: a site whose username fails the legality check never has a task in
\* the pool, so the tasks submitted are those of the other sites.
C23_IllegalNeverSubmitted ==
    \A k \in Keys : FailsRegex(k) => task[k] = "none"

\* The sites whose send never returns, and a run in which every other site
\* answers and passes the legality check.
HungSites == {k \in Keys : transport[k] = Hang}
OthersAnswer ==
    \A k \in Keys \ HungSites : transport[k].kind = "response" /\ ~FailsRegex(k)
\* C24: in a run without a timeout in which one site's send never returns and
\* the others answer, every other site is eventually dispatched, classified
\* and reported through update, for every pool size, while finish is never
\* called and the engine never returns.
C24_HangBlocksOnlyItsSite ==
    /\ \A k \in 1..NumSites :
         (k \in Keys /\ HungSites # {} /\ k \notin HungSites /\ OthersAnswer)
             ~> (Dispatched(k) /\ Classified(k) /\ Notified(k))
    /\ [](HungSites # {} /\ OthersAnswer => ~Finished /\ ~Returned)

\* logics/message.py OPTIONS_VALIDATOR, run by sites_load.validate: the option
\* errorMessage is required and is a string or a list of strings, of any
\* length.  load_sites.VALIDATOR, the loader of sherlock()'s catalogs, does not
\* require errorMsg.
message_options_valid(error_message) ==
    IF entry = "socialname" THEN error_message.type \in {"str", "list"} ELSE TRUE
\* The list of expected messages is empty or absent.
EmptyOrAbsent(error_message) ==
    \/ error_message.type = "none"
    \/ error_message.type = "list" /\ error_message.value = <<>>
\* C25: a Message descriptor whose list of expected messages is empty or
\* absent, when option validation lets it through, is never given the status
\* Claimed or Available by the strategy.
C25_EmptyMessageListRejected ==
    \A k \in Keys :
        (/\ site_data[k].logic = "message"
         /\ EmptyOrAbsent(site_data[k].error_message)
         /\ message_options_valid(site_data[k].error_message))
        => ~(HasResult(k) /\ FinalStatus(k) \in {CLAIMED, AVAILABLE})

\* C26: a request is sent with HEAD only for a descriptor that declares
\* head-only and whose kind is StatusCode; no Message or ResponseUrl probe is
\* sent with HEAD, whatever the descriptor's method or head-only setting.
C26_HeadOnlyForStatusCode ==
    \A k \in Keys : \A i \in DOMAIN sent[k] :
        sent[k][i].method = "HEAD" =>
            site_data[k].request_head_only /\ site_data[k].logic = "status_code"

\* C27: a request is sent with redirects disabled if and only if the
\* descriptor's kind is ResponseUrl; every Message and StatusCode request
\* follows redirects.
C27_RedirectsOffIffResponseUrl ==
    \A k \in Keys : \A i \in DOMAIN sent[k] :
        sent[k][i].allow_redirects <=> site_data[k].logic # "response_url"
\* C27 witness: sherlock() has sent the request of a ResponseUrl descriptor
\* that declares head-only and a body, with redirects disabled.
C27_Witness ==
    \E k \in Keys :
        /\ entry = "sherlock" /\ site_data[k].logic = "response_url"
        /\ site_data[k].request_head_only /\ site_data[k].request_payload # None
        /\ sent[k] # <<>> /\ ~sent[k][1].allow_redirects

\* C28: the headers of every request are the default headers and the
\* descriptor's: each descriptor header is sent with the descriptor's value,
\* and the default User-Agent is sent unless the descriptor declares its own.
C28_DescriptorHeadersWin ==
    \A k \in Keys : \A i \in DOMAIN sent[k] :
        LET headers == sent[k][i].headers
            declared == site_data[k].headers
        IN  /\ DOMAIN headers = {"User-Agent"} \cup DOMAIN declared
            /\ \A h \in DOMAIN declared : headers[h] = declared[h]
            /\ "User-Agent" \notin DOMAIN declared =>
                   headers["User-Agent"] = DefaultHeaders["User-Agent"]
\* C28 witness: a request has been sent for a descriptor that declares its own
\* User-Agent and one more header, and carries the descriptor's User-Agent.
C28_Witness ==
    \E k \in Keys :
        /\ DOMAIN site_data[k].headers = {"User-Agent", "X-Site"}
        /\ sent[k] # <<>>
        /\ sent[k][1].headers["User-Agent"] = "site"
        /\ sent[k][1].headers["X-Site"] = "x"

\* The URL recorded in the site's result.
ResultUrl(k) ==
    IF entry = "socialname" THEN FinalResult(k).url_user
    ELSE FinalResult(k).site_url_user
\* C29: the URL of every request is the descriptor's probe-URL template
\* formatted with the username whenever the descriptor declares one, and the
\* formatted user-URL template otherwise; the URL recorded in the site's
\* result is the formatted user URL.
C29_ProbeUrlWheneverDeclared ==
    \A k \in Keys :
        /\ \A i \in DOMAIN sent[k] :
             sent[k][i].url =
                IF site_data[k].url_probe # None
                THEN format(site_data[k].url_probe[1], username)
                ELSE format(site_data[k].url_user, username)
        /\ HasResult(k) => ResultUrl(k) = format(site_data[k].url_user, username)

\* C30: the request of a descriptor whose method is POST and that declares a
\* body template is sent with POST and with the template formatted with the
\* username as its body, with or without a proxy; a GET or HEAD request has no
\* body.
C30_PostCarriesFormattedBody ==
    \A k \in Keys : \A i \in DOMAIN sent[k] :
        IF site_data[k].request_method = "POST" /\ site_data[k].request_payload # None
        THEN /\ sent[k][i].method = "POST"
             /\ sent[k][i].data =
                    Some(format(site_data[k].request_payload[1], username))
        ELSE sent[k][i].method \in {"GET", "HEAD"} => sent[k][i].data = None

\* The elapsed duration the site's result carries.
Elapsed(k) ==
    IF entry = "socialname" THEN FinalResult(k).elapsed_time
    ELSE FinalResult(k).query_time
\* C31: every Illegal result carries no elapsed duration and an empty context,
\* and every Unknown result of a send that returned no response carries no
\* elapsed duration.
C31_IllegalAndNoResponseHaveNoElapsed ==
    \A k \in Keys :
        HasResult(k) =>
            /\ FinalStatus(k) = ILLEGAL =>
                   Elapsed(k) = None /\ FinalResult(k).context = <<>>
            /\ (FinalStatus(k) = UNKNOWN /\ transport[k].kind = "raise") =>
                   Elapsed(k) = None
\* C31 witness: a run has recorded an Illegal result for one site and the
\* Unknown result of a send that raised for another.
C31_Witness ==
    \E j, k \in Keys :
        /\ HasResult(j) /\ FinalStatus(j) = ILLEGAL
        /\ HasResult(k) /\ FinalStatus(k) = UNKNOWN /\ transport[k].kind = "raise"

\* C32: when socialname() on a catalog without sites has ended, it has
\* returned an empty mapping after one start call and one finish call, and no
\* request was sent.
C32_EmptyCatalogReturnsEmpty ==
    (entry = "socialname" /\ SiteCount = 0 /\ pc \in {"done", "raised"}) =>
        /\ Returned /\ results = <<>>
        /\ Cardinality(Calls("start")) = 1
        /\ Cardinality(Calls("finish")) = 1

\* C33: in socialname() the mapping always holds the results of a prefix of
\* the catalog: a site's result is never recorded before the results of the
\* sites that precede it, whatever the order in which the tasks complete.
C33_MappingFilledInCatalogOrder ==
    entry = "socialname" =>
        \A k \in DOMAIN results : \A j \in 1..k : j \in DOMAIN results
\* C33 witness: the task of a later site completed and notified first, and
\* the mapping holds the result of the earlier site and not yet the later's.
C33_Witness ==
    /\ entry = "socialname"
    /\ \E j, k \in Keys :
         /\ j < k /\ HasResult(j) /\ ~HasResult(k)
         /\ \E a \in UpdatesFor(k), b \in UpdatesFor(j) : a < b

\* C34: when the error of an unrecognised detection kind reaches the caller
\* of socialname(), start has been called once, no task has been submitted,
\* no request has been sent, and neither update nor finish has been called.
C34_UnknownKindRaisedBeforeSubmit ==
    (entry = "socialname" /\ UnknownKind # {} /\ pc = "raised") =>
        /\ raised = Some("ModuleNotFoundError")
        /\ Cardinality(Calls("start")) = 1
        /\ Calls("update") = {} /\ ~Finished
        /\ \A k \in Keys : sent[k] = <<>> /\ task[k] = "none"
\* C34 witness: the error has reached the caller of socialname() on a catalog
\* whose first site is of a recognised kind and whose second is not.
C34_Witness ==
    /\ entry = "socialname" /\ pc = "raised"
    /\ \E j, k \in Keys : j < k /\ j \notin UnknownKind /\ k \in UnknownKind

\* The threads at or inside a query_notify.update call: the workers of
\* socialname() that have built their result (by site) and the main thread of
\* sherlock() (0).
Updating ==
    {k \in Keys : task[k] = "built"} \cup (IF pc = "update" THEN {0} ELSE {})
\* C35: in every interleaving at most one update call is in progress at any
\* time.
C35_OneUpdateAtATime == Cardinality(Updating) <= 1

\* C36: the result every update call received for a site is the value stored
\* under that site in the mapping, and neither a stored result nor a received
\* one changes afterwards.
C36_NotifiedResultIsStoredResult ==
    /\ [](\A k \in Keys :
            HasResult(k) => \A i \in UpdatesFor(k) : notify_log[i].arg = FinalResult(k))
    /\ [][/\ \A k \in Keys :
               HasResult(k) => HasResult(k)' /\ FinalResult(k)' = FinalResult(k)
          /\ \A i \in DOMAIN notify_log :
               i \in DOMAIN notify_log' /\ notify_log'[i] = notify_log[i]]_vars
\* C36 witness: a returned run in which a site classified as Claimed was
\* reported through update.
C36_Witness ==
    /\ Returned
    /\ \E k \in Keys : UpdatesFor(k) # {} /\ FinalStatus(k) = CLAIMED /\ Classified(k)

\* C37: reset_identity is called at most once for a site, never without
\* unique_tor (with tor set or not) and never for an Illegal site; when a run
\* on a catalog of recognised kinds has ended with unique_tor set, it was
\* called once for every site that is not Illegal, whether its send succeeded
\* or failed.
C37_OneResetPerLegalSite ==
    /\ \A k \in Keys :
         /\ resets[k] <= 1
         /\ (~unique_tor \/ FailsRegex(k)) => resets[k] = 0
    /\ (pc \in {"done", "raised"} /\ UnknownKind = {} /\ unique_tor) =>
           \A k \in Keys : ~FailsRegex(k) => resets[k] = 1

\* C38: a response whose status code is falsy gives the result Unknown with
\* the context "General Unknown Error" and no strategy runs for it; a strategy
\* runs only for a response whose status code is truthy.
C38_FalsyStatusIsFailure ==
    \A k \in Keys :
        /\ (HasResult(k) /\ transport[k].kind = "response" /\ transport[k].status_code = 0)
           => /\ FinalStatus(k) = UNKNOWN
              /\ ErrorContext(k) = Some("General Unknown Error")
              /\ classified[k] = 0
        /\ classified[k] > 0 =>
               transport[k].kind = "response" /\ transport[k].status_code # 0
\* C38 witness: the result of a send that returned a response with status
\* code 0 has been recorded as Unknown.
C38_Witness ==
    \E k \in Keys :
        /\ HasResult(k) /\ transport[k].kind = "response"
        /\ transport[k].status_code = 0
        /\ FinalStatus(k) = UNKNOWN /\ classified[k] = 0

====
